---- MODULE Spec2Model ----
(***************************************************************************)
(* Model of the Optiver data exploration tooling:                          *)
(*   load_data.py       class DataLoader (the Loader)                      *)
(*   visualize_data.py  the plotting functions and the report (Visualizer) *)
(*                                                                         *)
(* Two specifications share the module.  Spec drives the Loader against a  *)
(* file system whose files appear, disappear and may be unreadable.        *)
(* VisSpec drives the Visualizer (and DataLoader.basic_exploration) on the *)
(* three tables a caller holds.                                            *)
(*                                                                         *)
(* A DataFrame is a record [present, cols, rows]: present = FALSE is       *)
(* Python's None; cols is the set of column names; rows is the sequence of *)
(* rows in frame order.  Console output is the sequence of lines a call    *)
(* printed; an exception that leaves a call is the field exc.              *)
(***************************************************************************)
EXTENDS Integers, Sequences, FiniteSets, TLC

VARIABLES fs, ret, held, loaded, out

vars == <<fs, ret, held, loaded, out>>

-----------------------------------------------------------------------------
(* Bounds *)

\* Longest file the Loader reads, in rows.
MaxFileRows == 3

\* Size of the largest Visualizer session: the rows its three tables hold
\* plus the columns they lack.
MaxSize == 2

-----------------------------------------------------------------------------
(* Shared helpers *)

Min(a, b) == IF a < b THEN a ELSE b

Max(a, b) == IF a > b THEN a ELSE b

NoFrame == [present |-> FALSE, cols |-> {}, rows |-> <<>>]

Frame(cols, rows) == [present |-> TRUE, cols |-> cols, rows |-> rows]

\* DataFrame.head(n): the first n rows; for a negative n, all rows but the
\* last -n.
HeadRows(df, n) ==
    LET len == Len(df.rows)
        k   == IF n >= 0 THEN Min(n, len) ELSE Max(len + n, 0)
    IN  [df EXCEPT !.rows = SubSeq(df.rows, 1, k)]

-----------------------------------------------------------------------------
(* Loader: load_data.py *)

\* The six configured files, by the names check_files_exist reports.
Names == {"book_train", "book_test", "trade_train", "trade_test",
          "train_csv", "test_csv"}

\* The path attribute of the DataLoader each file name stands for.
Paths == {"book_train.parquet", "book_test.parquet", "trade_train.parquet",
          "trade_test.parquet", "train.csv", "test.csv"}

\* DataLoader.__init__: the path held under each name.
PathOf(name) ==
    CASE name = "book_train"  -> "book_train.parquet"
      [] name = "book_test"   -> "book_test.parquet"
      [] name = "trade_train" -> "trade_train.parquet"
      [] name = "trade_test"  -> "trade_test.parquet"
      [] name = "train_csv"   -> "train.csv"
      [] name = "test_csv"    -> "test.csv"

\* The pair list with a copy-paste fault: book_test paired with the path of
\* book_train.
CheckedFilesCopyPaste ==
    << <<"book_train",  "book_train.parquet">>,
       <<"book_test",   "book_train.parquet">>,
       <<"trade_train", "trade_train.parquet">>,
       <<"trade_test",  "trade_test.parquet">>,
       <<"train_csv",   "train.csv">>,
       <<"test_csv",    "test.csv">> >>

\* The (name, path) pairs check_files_exist iterates over, in order.
CheckedFiles ==
    << <<"book_train",  "book_train.parquet">>,
       <<"book_test",   "book_test.parquet">>,
       <<"trade_train", "trade_train.parquet">>,
       <<"trade_test",  "trade_test.parquet">>,
       <<"train_csv",   "train.csv">>,
       <<"test_csv",    "test.csv">> >>

\* Path.exists() against the current file system.
Exists(path) == path \in fs

\* What a file may hold: a table of at most MaxFileRows rows.
FileRowVals == {1, 2}

FileCols == {"stock_id", "time_id", "seconds_in_bucket"}

RowSeqs(vals, n) == UNION {[1..k -> vals] : k \in 0..n}

FileContents ==
    {Frame(FileCols, r) : r \in RowSeqs(FileRowVals, MaxFileRows)}

\* The outcome of reading a file that exists: its content, or a read error.
ReadOutcomes ==
    {[ok |-> TRUE, df |-> f] : f \in FileContents}
        \cup {[ok |-> FALSE, df |-> NoFrame]}

\* The nrows arguments tried: the code validates nothing, so zero and a
\* negative number are inputs too.
NRows == (0 - 1)..(MaxFileRows + 1)

\* The record of a Loader call: what it printed, what it returned (df, handle
\* or status), the exception that left it ("none" when it returned), and the
\* inputs it ran on (path, whether it existed, the read outcome, nrows).
LoaderRet(op, path, console, exc) ==
    [op |-> op, path |-> path, existed |-> Exists(path),
     console |-> console, exc |-> exc,
     df |-> NoFrame, handle |-> "None", status |-> <<>>, printed |-> <<>>,
     read |-> [ok |-> FALSE, df |-> NoFrame], nrows |-> 0, failure |-> "none"]

\* check_files_exist: files_status[name] = path.exists() for each pair in
\* order, and beside it the mark printed for the name, which is a second
\* path.exists() of the same path.
RECURSIVE FilesStatus(_, _)
FilesStatus(pairs, acc) ==
    IF pairs = <<>> THEN acc
    ELSE LET name == Head(pairs)[1]
             path == Head(pairs)[2]
         IN  FilesStatus(Tail(pairs),
                 [status  |-> (name :> Exists(path)) @@ acc.status,
                  printed |-> (name :> Exists(path)) @@ acc.printed,
                  console |-> Append(acc.console, name)])

check_files_exist ==
    LET r == FilesStatus(CheckedFiles,
                         [status |-> <<>>, printed |-> <<>>, console |-> <<>>])
    IN  [LoaderRet("check_files_exist", "train.csv", r.console, "none")
            EXCEPT !.status = r.status, !.printed = r.printed]

\* Where reading the metadata of an existing parquet file may fail: at
\* pq.ParquetFile (open), or at one of the three reads that follow it.
MetaFailures == {"none", "open", "num_row_groups", "schema", "pandas_metadata"}

\* What the metadata read meets: a failure point, or no failure and a schema
\* with or without pandas metadata.
MetaReads ==
    {<<f, FALSE>> : f \in MetaFailures} \cup {<<"none", TRUE>>}

\* The lines the try block of explore_parquet_structure prints before the
\* failure point.
MetaLines(failure, hasPandasMeta) ==
    CASE failure = "open"            -> <<>>
      [] failure = "num_row_groups"  -> <<>>
      [] failure = "schema"          -> <<"row_groups">>
      [] failure = "pandas_metadata" -> <<"row_groups", "schema">>
      [] OTHER -> IF hasPandasMeta
                  THEN <<"row_groups", "schema", "pandas_metadata">>
                  ELSE <<"row_groups", "schema">>

\* explore_parquet_structure(parquet_path).  The return statement is outside
\* the try block: when pq.ParquetFile itself raised, the local parquet_file
\* was never bound and the return raises UnboundLocalError.
explore_parquet_structure(path, failure, hasPandasMeta) ==
    IF ~Exists(path)
    THEN LoaderRet("explore_parquet_structure", path, <<"not_found">>, "none")
    ELSE LET printed == <<"structure_header">> \o MetaLines(failure, hasPandasMeta)
                          \o (IF failure = "none" THEN <<>> ELSE <<"metadata_error">>)
             r == LoaderRet("explore_parquet_structure", path, printed,
                            IF failure = "open" THEN "UnboundLocalError" ELSE "none")
         IN  [r EXCEPT !.handle = IF failure = "open" THEN "None" ELSE "ParquetFile",
                       !.failure = failure]

FileTypes == {"book", "trade", "targets"}

Splits == {"train", "test"}

\* The if/elif chain of load_sample_data; "" stands for the else branch.
SamplePath(file_type, split) ==
    CASE file_type = "book"  /\ split = "train" -> "book_train.parquet"
      [] file_type = "book"  /\ split = "test"  -> "book_test.parquet"
      [] file_type = "trade" /\ split = "train" -> "trade_train.parquet"
      [] file_type = "trade" /\ split = "test"  -> "trade_test.parquet"
      [] OTHER -> ""

\* The truncation with an off-by-one fault: a frame of nrows rows is cut too,
\* to nrows - 1 rows.
TruncateSampleOffByOne(df, nrows) ==
    IF Len(df.rows) >= nrows THEN HeadRows(df, nrows - 1) ELSE df

\* The truncation with the opposite fault: one row too many is let through.
TruncateSampleLate(df, nrows) ==
    IF Len(df.rows) > nrows + 1 THEN HeadRows(df, nrows + 1) ELSE df

\* if len(df) > nrows: df = df.head(nrows): the frame is cut to its first
\* nrows rows when it is longer.
TruncateSample(df, nrows) ==
    IF Len(df.rows) > nrows THEN HeadRows(df, nrows) ELSE df

\* load_sample_data(file_type, split, nrows); read is what pd.read_parquet
\* does with the file.
load_sample_data(file_type, split, nrows, read) ==
    LET path == SamplePath(file_type, split)
        base == [LoaderRet("load_sample_data", path, <<>>, "none")
                    EXCEPT !.nrows = nrows, !.read = read]
    IN  IF path = ""
        THEN [base EXCEPT !.exc = "ValueError"]
        ELSE IF ~Exists(path)
        THEN [base EXCEPT !.console = <<"not_found">>]
        ELSE IF ~read.ok
        THEN [base EXCEPT !.console = <<"load_header", "load_error">>]
        ELSE [base EXCEPT
                !.console = <<"load_header",
                              IF Len(read.df.rows) > nrows
                              THEN "sample_loaded" ELSE "all_loaded">>,
                !.df = TruncateSample(read.df, nrows)]

\* load_train_targets(); pd.read_csv is called outside any try block.
load_train_targets(read) ==
    LET base == [LoaderRet("load_train_targets", "train.csv", <<>>, "none")
                    EXCEPT !.read = read]
    IN  IF ~Exists("train.csv")
        THEN [base EXCEPT !.console = <<"targets_not_found">>]
        ELSE IF ~read.ok
        THEN [base EXCEPT !.console = <<"targets_header">>, !.exc = "ReadError"]
        ELSE [base EXCEPT !.console = <<"targets_header", "shape">>,
                          !.df = read.df]

\* No Loader call made yet.
LoaderIdle ==
    [op |-> "idle", path |-> "", existed |-> FALSE, console |-> <<>>,
     exc |-> "none", df |-> NoFrame, handle |-> "None", status |-> <<>>,
     printed |-> <<>>, read |-> [ok |-> FALSE, df |-> NoFrame], nrows |-> 0,
     failure |-> "none"]

-----------------------------------------------------------------------------
(* Loader actions *)

\* A file appears on disk, outside the program.
CreateFile ==
    \E p \in Paths \ fs :
        /\ ret.op = "idle"
        /\ fs' = fs \cup {p}
        /\ UNCHANGED <<ret, held, loaded, out>>

\* A file disappears from disk, outside the program.
RemoveFile ==
    \E p \in fs :
        /\ ret.op = "idle"
        /\ fs' = fs \ {p}
        /\ UNCHANGED <<ret, held, loaded, out>>

CheckFilesExist ==
    /\ ret.op = "idle"
    /\ ret' = check_files_exist
    /\ UNCHANGED <<fs, held, loaded, out>>

ExploreParquetStructure ==
    \E path \in Paths, meta \in MetaReads :
        /\ ret.op = "idle"
        /\ ret' = explore_parquet_structure(path, meta[1], meta[2])
        /\ UNCHANGED <<fs, held, loaded, out>>

LoadSampleData ==
    \E file_type \in FileTypes, split \in Splits, nrows \in NRows,
       read \in ReadOutcomes :
        /\ ret.op = "idle"
        /\ ret' = load_sample_data(file_type, split, nrows, read)
        /\ UNCHANGED <<fs, held, loaded, out>>

LoadTrainTargets ==
    \E read \in ReadOutcomes :
        /\ ret.op = "idle"
        /\ ret' = load_train_targets(read)
        /\ UNCHANGED <<fs, held, loaded, out>>

\* The caller takes the result of the call; the next call can be made.
LoaderReturn ==
    /\ ret.op # "idle"
    /\ ret' = LoaderIdle
    /\ UNCHANGED <<fs, held, loaded, out>>

-----------------------------------------------------------------------------
(* Tables of a Visualizer session *)

TargetCols == {"stock_id", "time_id", "target"}

BookCols == {"stock_id", "time_id", "seconds_in_bucket", "bid_price1",
             "ask_price1", "bid_price2", "ask_price2", "bid_size1", "ask_size1"}

TradeCols == {"stock_id", "seconds_in_bucket", "price", "size", "order_count"}

\* The columns whose values the model carries; of the other columns only
\* presence matters to the code paths modelled.  target is in hundredths.
ValuedCols == {"stock_id", "time_id", "target", "bid_price1", "ask_price1"}

CellVals == {1, 2}

\* The rows a table with these columns and of this kind may hold.
RowsOver(cols, kindCols) == [(cols \cap kindCols) \cap ValuedCols -> CellVals]

\* The tables of one kind with exactly k rows and exactly m of the kind's
\* columns missing; None is the table of no rows and nothing missing.
TablesOf(kindCols, k, m) ==
    UNION {{Frame(kindCols \ d, r) :
                r \in [1..k -> RowsOver(kindCols \ d, kindCols)]} :
           d \in {x \in SUBSET kindCols : Cardinality(x) = m}}
        \cup (IF k = 0 /\ m = 0 THEN {NoFrame} ELSE {})

\* How a session's size is spent: rows and missing columns of the book, the
\* trade and the target table, MaxSize between them at most.
SizeSplits ==
    {s \in [{"book", "trade", "target"} \X {"rows", "missing"} -> 0..MaxSize] :
        s[<<"book", "rows">>] + s[<<"book", "missing">>]
          + s[<<"trade", "rows">>] + s[<<"trade", "missing">>]
          + s[<<"target", "rows">>] + s[<<"target", "missing">>] <= MaxSize}

\* The sessions of one split: the three tables a caller holds.
SessionsOf(s) ==
    {[book |-> b, trade |-> t, target |-> g] :
        b \in TablesOf(BookCols, s[<<"book", "rows">>], s[<<"book", "missing">>]),
        t \in TablesOf(TradeCols, s[<<"trade", "rows">>], s[<<"trade", "missing">>]),
        g \in TablesOf(TargetCols, s[<<"target", "rows">>],
                       s[<<"target", "missing">>])}

-----------------------------------------------------------------------------
(* Visualizer: visualize_data.py *)

\* The running result of a plotting function: the exception that left it,
\* the lines printed, the figures created (plt.subplots) and shown
\* (plt.show), the panels drawn, and the frame it was handed, as it is now.
Started(df) ==
    [exc |-> "none", console |-> <<>>, figures |-> 0, shown |-> 0,
     panels |-> {}, df |-> df]

Notice(df, line) == [Started(df) EXCEPT !.console = <<line>>]

\* plt.subplots(...)
Subplots(r) == [r EXCEPT !.figures = @ + 1]

\* df[c] for each c of cols: a KeyError when a column is not in the frame.
NeedIn(r, df, cols) ==
    IF r.exc # "none" \/ cols \subseteq df.cols THEN r
    ELSE [r EXCEPT !.exc = "KeyError"]

Need(r, cols) == NeedIn(r, r.df, cols)

\* print(line)
Say(r, line) ==
    IF r.exc # "none" THEN r ELSE [r EXCEPT !.console = Append(@, line)]

\* One panel drawn on its axes.
Draw(r, panel) ==
    IF r.exc # "none" THEN r ELSE [r EXCEPT !.panels = @ \cup {panel}]

\* A seaborn call on the frame.  What seaborn does with a frame of no rows
\* depends on its version: it draws an empty panel or raises ValueError.
DrawSeaborn(r, panel, emptyRaises) ==
    IF r.exc = "none" /\ r.df.rows = <<>> /\ emptyRaises
    THEN [r EXCEPT !.exc = "ValueError"]
    ELSE Draw(r, panel)

\* plt.tight_layout(); plt.show()
Show(r) == IF r.exc # "none" THEN r ELSE [r EXCEPT !.shown = @ + 1]

\* The guard with the column test left out.
NoTargetsGuardNoneOnly(targets_df) == ~targets_df.present

\* The guard of plot_target_distribution:
\* targets_df is None or 'target' not in targets_df.columns
NoTargetsGuard(targets_df) ==
    ~targets_df.present \/ "target" \notin targets_df.cols

plot_target_distribution(targets_df, emptyRaises) ==
    IF NoTargetsGuard(targets_df)
    THEN Notice(targets_df, "no_targets")
    ELSE LET r1 == Subplots(Started(targets_df))
             r2 == Draw(Need(r1, {"target"}), "target_hist")
             r3 == Draw(r2, "log_target_hist")
             r4 == DrawSeaborn(Need(r3, {"stock_id"}), "box_by_stock", emptyRaises)
             r5 == Draw(Need(Need(r4, {"target", "stock_id"}), {"time_id"}),
                        "stats_text")
         IN  Show(r5)

\* book_df['spread_1'] = book_df['ask_price1'] - book_df['bid_price1']: the
\* column is written into the frame the caller passed.
WithSpread(df) ==
    [df EXCEPT
        !.cols = @ \cup {"spread_1"},
        !.rows = [i \in 1..Len(df.rows) |->
                     [c \in DOMAIN df.rows[i] \cup {"spread_1"} |->
                         IF c = "spread_1"
                         THEN df.rows[i]["ask_price1"] - df.rows[i]["bid_price1"]
                         ELSE df.rows[i][c]]]]

SetSpread(r) ==
    IF r.exc # "none" THEN r ELSE [r EXCEPT !.df = WithSpread(r.df)]

\* 'stock_id' in df.columns and df['stock_id'].nunique() > 0
HasStock(df) == "stock_id" \in df.cols /\ df.rows # <<>>

PriceCols == {"bid_price1", "bid_price2", "ask_price1", "ask_price2"}

\* The panel of one stock (the first met), drawn when the frame names one.
DrawForStock(r, cols, panel) ==
    IF HasStock(r.df) THEN Draw(Need(r, cols), panel) ELSE r

\* The correlation heatmap, drawn when two price columns or more are there.
DrawPriceCorr(r, emptyRaises) ==
    IF Cardinality(PriceCols \cap r.df.cols) > 1
    THEN DrawSeaborn(r, "price_corr", emptyRaises)
    ELSE r

\* The mean spread per time_id, drawn when the frame has a time_id column.
DrawSpreadByTime(r) ==
    IF "time_id" \in r.df.cols
    THEN Draw(Need(r, {"spread_1", "bid_size1", "ask_size1"}), "spread_by_time")
    ELSE r

plot_book_analysis(book_df, emptyRaises) ==
    IF ~book_df.present
    THEN Notice(book_df, "no_book")
    ELSE LET r1 == Subplots(Started(book_df))
             r2 == SetSpread(Need(r1, {"ask_price1", "bid_price1"}))
             r3 == Draw(r2, "spread_hist")
             r4 == DrawForStock(r3, {"seconds_in_bucket", "bid_price1",
                                     "ask_price1"}, "price_evolution")
             r5 == Draw(Need(r4, {"bid_size1", "ask_size1"}), "size_scatter")
             r6 == Draw(Need(r5, {"seconds_in_bucket"}), "seconds_hist")
             r7 == DrawPriceCorr(r6, emptyRaises)
             r8 == DrawSpreadByTime(r7)
         IN  Show(r8)

plot_trade_analysis(trade_df) ==
    IF ~trade_df.present
    THEN Notice(trade_df, "no_trade")
    ELSE LET r1 == Subplots(Started(trade_df))
             r2 == Draw(Need(r1, {"size"}), "size_hist")
             r3 == Draw(Need(r2, {"order_count"}), "order_count_hist")
             r4 == Draw(Need(r3, {"size", "price"}), "size_price_scatter")
             r5 == DrawForStock(r4, {"seconds_in_bucket", "price", "size"},
                                "trades_in_time")
         IN  Show(r5)

\* Series.nunique()
NUnique(df, col) == Cardinality({df.rows[i][col] : i \in 1..Len(df.rows)})

RECURSIVE SumCol(_, _)
SumCol(rows, col) ==
    IF rows = <<>> THEN 0 ELSE rows[1][col] + SumCol(Tail(rows), col)

\* f"{df[col].mean():.4f}" for a column held in hundredths: the mean in units
\* of 0.0001, rounded to the nearest unit.  Called on a frame with rows.
MeanE4(df, col) ==
    LET n == Len(df.rows)
    IN  (2 * 100 * SumCol(df.rows, col) + n) \div (2 * n)

NoStats == [count |-> 0, stocks |-> 0, times |-> 0, mean_e4 |-> 0,
            mean_nan |-> FALSE]

\* The statistic of the target table a line of the report shows; the mean of
\* a frame without rows prints as nan.
StatValue(df, field) ==
    CASE field = "count"    -> Len(df.rows)
      [] field = "stocks"   -> NUnique(df, "stock_id")
      [] field = "times"    -> NUnique(df, "time_id")
      [] field = "mean_nan" -> df.rows = <<>>
      [] field = "mean_e4"  -> IF df.rows = <<>> THEN 0 ELSE MeanE4(df, "target")

\* print of a line that shows a statistic of the target table.
SayStat(r, df, line, field) ==
    IF r.exc # "none" THEN r
    ELSE [r EXCEPT !.console = Append(@, line),
                   !.stats[field] = StatValue(df, field)]

\* The line of the mean: it sets both the value and whether it is nan.
SayMean(r, df) ==
    IF r.exc # "none" THEN r
    ELSE [r EXCEPT !.console = Append(@, "targets_mean"),
                   !.stats["mean_nan"] = StatValue(df, "mean_nan"),
                   !.stats["mean_e4"] = StatValue(df, "mean_e4")]

\* Lines 182-189.
ReportTargets(r, df) ==
    IF ~df.present THEN r
    ELSE LET r1 == SayStat(Say(r, "targets_header"), df, "targets_count", "count")
             r2 == SayStat(NeedIn(r1, df, {"stock_id"}), df,
                           "targets_stocks", "stocks")
             r3 == SayStat(NeedIn(r2, df, {"time_id"}), df,
                           "targets_times", "times")
             r4 == SayMean(NeedIn(r3, df, {"target"}), df)
         IN  Say(Say(r4, "targets_median"), "targets_std")

\* Lines 191-197.
ReportBook(r, df) ==
    IF ~df.present THEN r
    ELSE LET r1 == Say(Say(r, "book_header"), "book_count")
             r2 == Say(NeedIn(r1, df, {"stock_id"}), "book_stocks")
             r3 == Say(NeedIn(r2, df, {"seconds_in_bucket"}), "book_seconds_max")
         IN  Say(NeedIn(r3, df, {"ask_price1", "bid_price1"}), "book_spread_mean")

\* Lines 199-205.
ReportTrades(r, df) ==
    IF ~df.present THEN r
    ELSE LET r1 == Say(Say(r, "trades_header"), "trades_count")
             r2 == Say(NeedIn(r1, df, {"stock_id"}), "trades_stocks")
             r3 == Say(Say(NeedIn(r2, df, {"size"}), "trades_size_mean"),
                       "trades_volume")
         IN  Say(NeedIn(r3, df, {"order_count"}), "trades_orders_mean")

\* Lines 207-214: the static list of next steps and the closing rule.
RECURSIVE SayAll(_, _)
SayAll(r, lines) ==
    IF lines = <<>> THEN r ELSE SayAll(Say(r, Head(lines)), Tail(lines))

NextSteps == <<"next_steps", "step_1", "step_2", "step_3", "step_4", "step_5",
               "report_footer">>

generate_summary_report(book_data, trade_data, target_data) ==
    LET r0 == [exc |-> "none",
               console |-> <<"report_header", "overview">>,
               flags |-> [book |-> book_data.present,
                          trade |-> trade_data.present,
                          target |-> target_data.present],
               stats |-> NoStats]
        r1 == ReportTargets(r0, target_data)
        r2 == ReportBook(r1, book_data)
        r3 == ReportTrades(r2, trade_data)
    IN  SayAll(r3, NextSteps)

\* The guard left out: every plot function is called.
ShouldPlotAlways(df) == TRUE

\* The guards of visualize_data (if ..._data is not None): a plot function
\* is called only for a table that is not None.
ShouldPlot(df) == df.present

\* One call made by visualize_data: the line announcing it, then the call; an
\* exception of the call leaves visualize_data too.
ThenCall(v, name, line, r) ==
    IF v.exc # "none" THEN v
    ELSE [v EXCEPT !.console = (@ \o <<line>>) \o r.console,
                   !.calls = Append(@, name),
                   !.exc = r.exc]

ThenPlot(v, name, line, r) ==
    IF v.exc # "none" THEN v
    ELSE [ThenCall(v, name, line, r) EXCEPT
              !.figures = @ + r.figures, !.shown = @ + r.shown]

\* A plot function called under its guard.
PlotStep(v, df, name, line, r) ==
    IF ShouldPlot(df) THEN ThenPlot(v, name, line, r) ELSE v

\* plot_book_analysis called under its guard: the frame is the caller's, so
\* what the call wrote into it stays.
BookStep(v, df, emptyRaises) ==
    IF ShouldPlot(df) /\ v.exc = "none"
    THEN LET rb == plot_book_analysis(df, emptyRaises)
         IN  [ThenPlot(v, "plot_book_analysis", "2_book", rb) EXCEPT !.book = rb.df]
    ELSE v

\* generate_summary_report, always called.
ReportStep(v, trade_data, target_data) ==
    IF v.exc # "none" THEN v
    ELSE LET rr == generate_summary_report(v.book, trade_data, target_data)
         IN  [ThenCall(v, "generate_summary_report", "4_report", rr)
                 EXCEPT !.flags = rr.flags, !.stats = rr.stats]

visualize_data(book_data, trade_data, target_data, emptyRaises) ==
    LET v0 == [exc |-> "none", console |-> <<"visualisations_header">>,
               calls |-> <<>>, figures |-> 0, shown |-> 0,
               book |-> book_data, flags |-> [book |-> FALSE, trade |-> FALSE,
                                            target |-> FALSE],
               stats |-> NoStats]
        v1 == PlotStep(v0, target_data, "plot_target_distribution", "1_targets",
                       plot_target_distribution(target_data, emptyRaises))
        v2 == BookStep(v1, book_data, emptyRaises)
        v3 == PlotStep(v2, trade_data, "plot_trade_analysis", "3_trades",
                       plot_trade_analysis(trade_data))
        v4 == ReportStep(v3, trade_data, target_data)
    IN  Say(v4, "visualisations_footer")

\* print of lines under a condition.
SayIf(r, cond, lines) == IF cond THEN SayAll(r, lines) ELSE r

\* DataFrame.describe() raises ValueError on a frame without columns.
Describe(r) ==
    IF r.df.cols = {} THEN [r EXCEPT !.exc = "ValueError"] ELSE Say(r, "describe")

\* DataLoader.basic_exploration(df, data_name): prints, changes nothing.
basic_exploration(df) ==
    IF ~df.present THEN Started(df)
    ELSE LET r1 == SayAll(Started(df), <<"exploration_header", "shape", "columns",
                                         "dtypes", "head", "missing_values",
                                         "describe_header">>)
             r2 == Describe(r1)
             r3 == SayIf(r2, "stock_id" \in df.cols, <<"unique_stocks", "stock_ids">>)
             r4 == SayIf(r3, "time_id" \in df.cols,
                         <<"unique_time_ids", "time_id_range">>)
         IN  SayIf(r4, "seconds_in_bucket" \in df.cols, <<"seconds_range">>)

-----------------------------------------------------------------------------
(* Visualizer actions *)

NoSession == [book |-> NoFrame, trade |-> NoFrame, target |-> NoFrame]

NoFlags == [book |-> FALSE, trade |-> FALSE, target |-> FALSE]

\* The record of a Visualizer call: the function, the tables the caller held
\* when it made the call, and what the call did.
VisOut(op, arg, r) ==
    [op |-> op, arg |-> arg, before |-> held, exc |-> r.exc,
     console |-> r.console, figures |-> 0, shown |-> 0, panels |-> {},
     calls |-> <<>>, flags |-> NoFlags, stats |-> NoStats]

PlotOut(op, arg, r) ==
    [VisOut(op, arg, r) EXCEPT !.figures = r.figures, !.shown = r.shown,
                               !.panels = r.panels]

VisIdle ==
    [op |-> "idle", arg |-> "none", before |-> NoSession, exc |-> "none",
     console |-> <<>>, figures |-> 0, shown |-> 0, panels |-> {},
     calls |-> <<>>, flags |-> NoFlags, stats |-> NoStats]

PlotTargetDistribution ==
    \E emptyRaises \in BOOLEAN :
        LET r == plot_target_distribution(held.target, emptyRaises)
        IN  /\ out.op = "idle"
            /\ out' = PlotOut("plot_target_distribution", "target", r)
            /\ held' = [held EXCEPT !.target = r.df]
            /\ UNCHANGED <<fs, ret, loaded>>

PlotBookAnalysis ==
    \E emptyRaises \in BOOLEAN :
        LET r == plot_book_analysis(held.book, emptyRaises)
        IN  /\ out.op = "idle"
            /\ out' = PlotOut("plot_book_analysis", "book", r)
            /\ held' = [held EXCEPT !.book = r.df]
            /\ UNCHANGED <<fs, ret, loaded>>

PlotTradeAnalysis ==
    LET r == plot_trade_analysis(held.trade)
    IN  /\ out.op = "idle"
        /\ out' = PlotOut("plot_trade_analysis", "trade", r)
        /\ held' = [held EXCEPT !.trade = r.df]
        /\ UNCHANGED <<fs, ret, loaded>>

GenerateSummaryReport ==
    LET r == generate_summary_report(held.book, held.trade, held.target)
    IN  /\ out.op = "idle"
        /\ out' = [VisOut("generate_summary_report", "all", r)
                      EXCEPT !.flags = r.flags, !.stats = r.stats]
        /\ UNCHANGED <<fs, ret, held, loaded>>

VisualizeData ==
    \E emptyRaises \in BOOLEAN :
        LET v == visualize_data(held.book, held.trade, held.target, emptyRaises)
        IN  /\ out.op = "idle"
            /\ out' = [VisOut("visualize_data", "all", v)
                          EXCEPT !.figures = v.figures, !.shown = v.shown,
                                 !.calls = v.calls, !.flags = v.flags,
                                 !.stats = v.stats]
            /\ held' = [held EXCEPT !.book = v.book]
            /\ UNCHANGED <<fs, ret, loaded>>

BasicExploration ==
    \E arg \in {"book", "trade", "target"} :
        LET r == basic_exploration(held[arg])
        IN  /\ out.op = "idle"
            /\ out' = VisOut("basic_exploration", arg, r)
            /\ held' = [held EXCEPT ![arg] = r.df]
            /\ UNCHANGED <<fs, ret, loaded>>

\* The call is over: the caller goes on with the tables it holds.
VisReturn ==
    /\ out.op # "idle"
    /\ out' = VisIdle
    /\ UNCHANGED <<fs, ret, held, loaded>>

-----------------------------------------------------------------------------
(* Specifications *)

\* The Loader, just constructed, over any file system.
Init ==
    /\ fs \in SUBSET Paths
    /\ ret = LoaderIdle
    /\ held = NoSession
    /\ loaded = NoSession
    /\ out = VisIdle

Next ==
    \/ CreateFile
    \/ RemoveFile
    \/ CheckFilesExist
    \/ ExploreParquetStructure
    \/ LoadSampleData
    \/ LoadTrainTargets
    \/ LoaderReturn

Spec == Init /\ [][Next]_vars

\* The Visualizer, handed the tables of a session right after they were
\* loaded.
VisInit ==
    /\ fs = {}
    /\ ret = LoaderIdle
    /\ \E s \in SizeSplits : held \in SessionsOf(s)
    /\ loaded = held
    /\ out = VisIdle

VisNext ==
    \/ PlotTargetDistribution
    \/ PlotBookAnalysis
    \/ PlotTradeAnalysis
    \/ GenerateSummaryReport
    \/ VisualizeData
    \/ BasicExploration
    \/ VisReturn

VisSpec == VisInit /\ [][VisNext]_vars

-----------------------------------------------------------------------------
(* Properties of the Loader, checked under Spec *)

\* C1: inspectSchema (explore_parquet_structure) never lets an exception
\* out: for a missing path it returns None, and when opening or reading the
\* metadata of an existing path fails, the error is logged and nothing is
\* returned.
C1_InspectNeverRaises ==
    ret.op = "explore_parquet_structure" =>
        /\ ret.exc = "none"
        /\ ~ret.existed => ret.handle = "None"
        /\ (ret.existed /\ ret.failure # "none") =>
               /\ ret.console[Len(ret.console)] = "metadata_error"
               /\ ret.handle = "None"

\* C2: for loadSample with a valid kind and split, and for loadTargets, a
\* missing file and a read error of an existing file both end in a console
\* message and a None result, and no exception reaches the caller.
C2_LoadFailuresAbsent ==
    (/\ ret.op \in {"load_sample_data", "load_train_targets"}
     /\ ret.path # ""
     /\ ~ret.existed \/ ~ret.read.ok) =>
        /\ ret.exc = "none"
        /\ ~ret.df.present
        /\ ret.console # <<>>

\* C3: whenever loadSample, called with a valid kind and split and a positive
\* n, returns a table, the table has at most n rows and they are the first
\* rows of the file, in file order.
C3_SampleAtMostN ==
    (/\ ret.op = "load_sample_data"
     /\ ret.path # ""
     /\ ret.nrows > 0
     /\ ret.df.present) =>
        /\ Len(ret.df.rows) <= ret.nrows
        /\ Len(ret.df.rows) <= Len(ret.read.df.rows)
        /\ ret.df.rows = SubSeq(ret.read.df.rows, 1, Len(ret.df.rows))

\* C3 witness: a file longer than a positive n was loaded and cut to n rows.
C3_Witness ==
    /\ ret.op = "load_sample_data"
    /\ ret.df.present
    /\ ret.nrows > 0
    /\ Len(ret.read.df.rows) > ret.nrows
    /\ Len(ret.df.rows) = ret.nrows

\* C8: checkAvailability returns exactly the six configured names; the value
\* of each is true iff its path exists when the call is made; the mark
\* printed for a name agrees with the value returned; nothing is raised.
C8_AvailabilityExact ==
    ret.op = "check_files_exist" =>
        /\ DOMAIN ret.status = Names
        /\ \A n \in Names : ret.status[n] = (PathOf(n) \in fs)
        /\ DOMAIN ret.printed = Names
        /\ \A n \in Names : ret.printed[n] = ret.status[n]
        /\ ret.exc = "none"

\* C8 witness: the check ran with some of the six files missing and some
\* there.
C8_Witness ==
    /\ ret.op = "check_files_exist"
    /\ "book_train.parquet" \in fs
    /\ "book_test.parquet" \notin fs
    /\ "train.csv" \notin fs

\* C10: loading with maxRows at least the file's row count returns the very
\* table loading without truncation returns (same columns, same rows, same
\* order); the table differs from the file only when the file has strictly
\* more rows than maxRows.  loadTargets never truncates.
C10_TruncationRoundTrip ==
    /\ (ret.op = "load_sample_data" /\ ret.df.present) =>
           /\ ret.nrows >= Len(ret.read.df.rows) => ret.df = ret.read.df
           /\ ret.df # ret.read.df => Len(ret.read.df.rows) > ret.nrows
    /\ (ret.op = "load_train_targets" /\ ret.df.present) =>
           ret.df = ret.read.df

\* C10 witness: a file of exactly maxRows rows, all of them returned.
C10_Witness ==
    /\ ret.op = "load_sample_data"
    /\ ret.df.present
    /\ ret.nrows = Len(ret.read.df.rows)
    /\ ret.nrows > 1
    /\ ret.df = ret.read.df

-----------------------------------------------------------------------------
(* Properties of the Visualizer, checked under VisSpec *)

VisOps == {"plot_target_distribution", "plot_book_analysis",
           "plot_trade_analysis", "generate_summary_report"}

\* C4: in every Visualizer operation a present table that lacks a column
\* the analysis expects costs only the chart or statistic that needs it: the
\* operation still completes, the missing column is never fatal.
C4_MissingColumnNotFatal ==
    out.op \in VisOps => out.exc # "KeyError"

\* C5: a loaded table is immutable: after any sequence of summarize, plot,
\* report and runAll calls the tables the caller holds have the columns and
\* the rows they had right after the load.
C5_TablesImmutable == held = loaded

\* The order visualize_data is said to follow, and the table each plot
\* function is for.
FixedOrder == <<"plot_target_distribution", "plot_book_analysis",
                "plot_trade_analysis", "generate_summary_report">>

TableOf(fn) ==
    CASE fn = "plot_target_distribution" -> "target"
      [] fn = "plot_book_analysis"       -> "book"
      [] fn = "plot_trade_analysis"      -> "trade"

\* The calls due for a session: the report, and the plot function of each
\* table that is present, in the fixed order.
DueCalls(session) ==
    LET Due(fn) == fn = "generate_summary_report" \/ session[TableOf(fn)].present
    IN  SelectSeq(FixedOrder, Due)

\* C6 as stated: runAll invokes the four functions, each exactly once, in
\* the order targets, book, trades, report, for every combination of present
\* and absent inputs.
C6_RunAllCallsAllFour ==
    out.op = "visualize_data" => out.calls = FixedOrder

\* C6 amended: runAll invokes the report and, for each input that is present,
\* its plot function; the plot function of an absent input is not invoked.
\* The calls are made one after the other in the order targets, book, trades,
\* report, each at most once; a call that raises ends runAll, and the calls
\* after it are not made.
C6_RunAllCallsPresentInOrder ==
    out.op = "visualize_data" =>
        LET due == DueCalls(out.before)
            n   == Len(out.calls)
        IN  /\ n >= 1
            /\ n <= Len(due)
            /\ out.calls = SubSeq(due, 1, n)
            /\ out.exc = "none" => n = Len(due)

\* C6 witness: runAll ran to its end with the targets absent and the book
\* and the trades present.
C6_Witness ==
    /\ out.op = "visualize_data"
    /\ out.exc = "none"
    /\ ~out.before.target.present
    /\ out.before.book.present
    /\ out.before.trade.present
    /\ Len(out.calls) = 3

\* C7 as stated: plotTargetDistribution on None, on a table without a target
\* column, or on a table of zero rows renders nothing and prints exactly one
\* notice.
C7_NoRenderOnAbsentOrEmpty ==
    (/\ out.op = "plot_target_distribution"
     /\ \/ ~out.before.target.present
        \/ "target" \notin out.before.target.cols
        \/ out.before.target.rows = <<>>) =>
        /\ out.figures = 0
        /\ out.shown = 0
        /\ Len(out.console) = 1

\* C7 amended: plotTargetDistribution on None or on a table without a target
\* column (of any row count) renders nothing and prints exactly one notice; a
\* table of zero rows that has a target column is not taken for absent: a
\* figure is created and no notice is printed.
C7_NoRenderWithoutTargetColumn ==
    out.op = "plot_target_distribution" =>
        LET t == out.before.target
        IN  /\ (~t.present \/ "target" \notin t.cols) =>
                   /\ out.figures = 0
                   /\ out.shown = 0
                   /\ out.panels = {}
                   /\ out.console = <<"no_targets">>
                   /\ out.exc = "none"
            /\ (t.present /\ "target" \in t.cols /\ t.rows = <<>>) =>
                   /\ out.figures = 1
                   /\ out.console = <<>>

\* C7 witness: the function was handed a table with rows and no target
\* column.
C7_Witness ==
    /\ out.op = "plot_target_distribution"
    /\ out.before.target.present
    /\ "target" \notin out.before.target.cols
    /\ out.before.target.rows # <<>>
    /\ out.console = <<"no_targets">>

\* Whether every line of lines was printed.
Printed(lines) == \A i \in 1..Len(lines) : \E j \in 1..Len(out.console) :
                      out.console[j] = lines[i]

\* C9: for every present target table generateSummaryReport shows the row
\* count, the number of distinct stock_id, the number of distinct time_id and
\* the mean of target (to the four decimals printed); the statistics of a
\* dataset are printed iff the dataset is present; the availability flags and
\* the list of next steps are printed in every case.
C9_ReportStatistics ==
    out.op = "generate_summary_report" =>
        LET s == out.before
            g == s.target
        IN  /\ Printed(<<"overview">>)
            /\ out.flags = [book |-> s.book.present, trade |-> s.trade.present,
                            target |-> g.present]
            /\ Printed(NextSteps)
            /\ g.present <=> Printed(<<"targets_count", "targets_stocks",
                                       "targets_times", "targets_mean">>)
            /\ s.book.present <=> Printed(<<"book_count", "book_stocks",
                                            "book_spread_mean">>)
            /\ s.trade.present <=> Printed(<<"trades_count", "trades_stocks",
                                             "trades_orders_mean">>)
            /\ g.present =>
                   /\ out.stats.count = Len(g.rows)
                   /\ out.stats.stocks =
                          Cardinality({g.rows[i].stock_id : i \in 1..Len(g.rows)})
                   /\ out.stats.times =
                          Cardinality({g.rows[i].time_id : i \in 1..Len(g.rows)})
                   /\ g.rows # <<>> =>
                          \* the mean, within half a unit of the fourth decimal
                          /\ 2 * Len(g.rows) * out.stats.mean_e4
                               <= 200 * SumCol(g.rows, "target") + Len(g.rows)
                          /\ 2 * Len(g.rows) * out.stats.mean_e4
                               >= 200 * SumCol(g.rows, "target") - Len(g.rows)

====
